---- MODULE Spec2Model ----
(***************************************************************************)
(* Model of the comment thread of the "Christian Vent" bot (src/bot.py):   *)
(* the comments and reactions tables, the per-user input state, the        *)
(* comment renderer show_comments_page with its helpers, the reaction      *)
(* buttons and the reply / write-comment flow.                             *)
(*                                                                         *)
(* Updates are handled one at a time (Application.run_polling without      *)
(* concurrent updates), so every handler is one atomic action.  The chat   *)
(* transport is an input of the renderer: the set F of send calls that the *)
(* platform rejects during one invocation.  The database is taken to       *)
(* answer every query; constraint violations are modelled, as db_execute   *)
(* turns them into a statement without effect.                             *)
(***************************************************************************)
EXTENDS Integers, Sequences, FiniteSets, Bags, TLC

\* ---------------------------------------------------------------- bounds
MaxPage     == 3      \* largest page number requested
MaxSeed     == 6      \* comments of a stored table given to the renderer
MaxFlat     == 11     \* top-level comments of a stored flat table
MaxThread   == 2      \* comments stored before the thread handlers run
MaxReacted  == 1      \* comments stored before the reaction taps
MaxComments == 1      \* comments inserted by handle_message afterwards
MaxFaults   == 1      \* rejected send calls per renderer invocation
MaxPosts    == 1      \* posts submitted, and channel messages sent, afterwards
MaxCalls    == 3      \* calls of db_execute
MaxRating   == 120    \* largest rating given to format_aura
MaxReplies  == 11     \* replies of a stored comment whose replies are paged
MaxFlight   == 2      \* approve_post calls awaiting their channel send

\* ------------------------------------------------------ program constants
per_page            == 5
replies_per_comment == 3
replies_per_page    == 5

Users    == {"u1", "u2"}
\* the user the environment names as administrator
ADMIN_ID == "u2"
NULL     == 0
Reaction == {"like", "dislike"}
\* what handle_message can receive while waiting for a comment
MsgKinds == {"text", "sticker", "other"}

VARIABLES
    posts,      \* posts table: post_id -> the columns of the row
    nextPid,    \* posts.post_id SERIAL
    channel,    \* messages sent to the public channel, in send order
    lastGone,   \* history: the post or comment row removed last, with what
                \* it held
    asked,      \* history: the edit, delete, approve or reject request the
                \* last step handled, with the alert it was answered with
    comments,   \* comments table, in timestamp (= comment_id) order
    nextCid,    \* comments.comment_id SERIAL
    reactions,  \* reactions table: a bag of rows [comment_id, user_id, type]
    users,      \* users table: user_id -> input-state columns
    userdata,   \* context.user_data: user_id -> [editing_comment, pending_post]
    request,    \* the last renderer invocation: post_id, page, rejected sends
    out,        \* messages of the last renderer invocation, in send order
    viewer,     \* the user whose chat holds the messages of out
    raised,     \* the last renderer invocation ended by an exception
    lastTap,    \* history: the last reaction tap, with the state before it
    twice,      \* history: lastTap repeated the tap before it; that tap's
                \* state before it
    tapped,     \* history: the node whose Reply button a user tapped last
    lastReply,  \* history: the last comment stored by handle_message
    db_pool,    \* the connection pool: whether it was created, and the state
                \* of its pooled connection
    server,     \* whether the database server accepts connections
    dbLast,     \* history: the last call of db_execute and how it ended
    aura,       \* history: the rating computed last, for whom, and its tier
    flight      \* the approve_post calls that read their vent number and
                \* await the channel send

\* what only the database helpers change
dbVars == <<db_pool, server, dbLast>>

\* what only the post handlers change
postVars == <<nextPid, channel, lastGone>>

\* the tables and the chats
botVars == <<posts, comments, nextCid, reactions, users, userdata, request,
             out, viewer, raised, lastTap, twice, tapped, lastReply, postVars>>

\* every variable but asked
others == <<botVars, dbVars, aura, flight>>

vars == <<others, asked>>

\* ---------------------------------------------------------------- helpers
Min(a, b) == IF a < b THEN a ELSE b

Range(s) == {s[i] : i \in DOMAIN s}

\* LIMIT limit OFFSET offset over an ordered result
Limit(rows, limit, offset) ==
    SubSeq(rows, offset + 1, Min(offset + limit, Len(rows)))

\* callback_data: the kind is the prefix, a, b, c the numbers after it
Btn(kind, a, b, c) == [kind |-> kind, a |-> a, b |-> b, c |-> c]

NoTap == [user |-> "", cid |-> 0, type |-> "", likes |-> 0, dislikes |-> 0,
          had |-> "", existed |-> FALSE]
NoAsk == [by |-> "", kind |-> "", arg |-> 0, alert |-> ""]

\* a request of the given kind by user by about the row arg, and the alert
\* that answers it ("" when none)
Ask(by, kind, arg, alert) ==
    [by |-> by, kind |-> kind, arg |-> arg, alert |-> alert]

NoRequest == [post_id |-> 0, page |-> 0, faults |-> {}, post |-> ""]
NoTwice == [hit |-> FALSE, likes |-> 0, dislikes |-> 0, had |-> ""]
NoNode == [cid |-> 0, post |-> 0]
NoTarget == [cid |-> 0, post |-> 0, via |-> ""]
NoReply == [cid |-> 0, target |-> 0, post |-> 0, via |-> "", by |-> ""]

\* ------------------------------------------------------------ the tables
\* SELECT * FROM comments WHERE comment_id = cid  (a set: empty or one row)
CommentRow(cid) == {c \in Range(comments) : c.comment_id = cid}

\* ... WHERE post_id = p AND parent_comment_id = 0 ORDER BY timestamp ASC
TopLevel(post_id) ==
    SelectSeq(comments,
              LAMBDA c : c.post_id = post_id /\ c.parent_comment_id = 0)

\* ... WHERE parent_comment_id = cid ORDER BY timestamp ASC
RepliesOf(cid) ==
    SelectSeq(comments, LAMBDA c : c.parent_comment_id = cid)

\* SELECT COUNT(*) FROM reactions WHERE comment_id = cid AND type = t
CountReactions(cid, t) ==
    LET rows == {r \in BagToSet(reactions) :
                    r.comment_id = cid /\ r.type = t}
        RECURSIVE Sum(_)
        Sum(S) == IF S = {} THEN 0
                  ELSE LET r == CHOOSE x \in S : TRUE
                       IN  CopiesIn(r, reactions) + Sum(S \ {r})
    IN  Sum(rows)

\* SELECT type FROM reactions WHERE comment_id = cid AND user_id = u
UserReaction(cid, u) ==
    {r.type : r \in {x \in BagToSet(reactions) :
                        x.comment_id = cid /\ x.user_id = u}}

\* --------------------------------------------------------- the renderer
\* one outbound send of the renderer: msg_id is its position in out when the
\* platform accepted it and NULL when it was rejected
Entry(kind, node, reply_to, msg_id, method, kb) ==
    [kind |-> kind, cid |-> node.cid, post |-> node.post,
     reply_to |-> reply_to, msg_id |-> msg_id, method |-> method, kb |-> kb]

\* the comment a message shows
Node(comment) == [cid |-> comment.comment_id, post |-> comment.post_id]

\* the Reply button of a freshly rendered node
ReplyButton(comment) ==
    Btn("reply", comment.post_id, comment.comment_id, 0)

\* edit/delete row: only for the author, edit only for text comments
OwnerButtons(comment, user_id) ==
    IF comment.author_id = user_id
    THEN IF comment.type = "text"
         THEN {Btn("edit_comment", comment.comment_id, 0, 0),
               Btn("delete_comment", comment.comment_id, 0, 0)}
         ELSE {Btn("delete_comment", comment.comment_id, 0, 0)}
    ELSE {}

\* kb_buttons of send_comment_message
Keyboard(comment, user_id) ==
    {Btn("likecomment", comment.comment_id, 0, 0),
     Btn("dislikecomment", comment.comment_id, 0, 0),
     ReplyButton(comment)} \cup OwnerButtons(comment, user_id)

\* the send call chosen by comment type; file_id is set for every non-text
\* comment that handle_message stores
SendMethod(comment) ==
    CASE comment.type = "text"    -> "send_message"
      [] comment.type = "voice"   -> "send_voice"
      [] comment.type = "gif"     -> "send_animation"
      [] comment.type = "sticker" -> "send_sticker"
      [] OTHER                    -> "send_message"

\* the keyboard that reaches the chat with the given send call
DeliveredKeyboard(method, kb) ==
    IF method = "send_sticker" THEN {} ELSE kb

\* send_comment_message: the typed send, on failure the plain-text fallback,
\* on a second failure None.  idx is the position of the entry in out.
send_comment_message(kind, comment, user_id, reply_to, F, idx) ==
    LET cid == comment.comment_id
        kb  == Keyboard(comment, user_id)
        m   == SendMethod(comment)
        n   == Node(comment)
    IN  IF <<"primary", cid>> \notin F
        THEN Entry(kind, n, reply_to, idx, m, DeliveredKeyboard(m, kb))
        ELSE IF <<"fallback", cid>> \notin F
             THEN Entry(kind, n, reply_to, idx, "fallback", kb)
             ELSE Entry(kind, n, reply_to, NULL, "none", {})

\* bug: replies sent as free-standing messages
ReplyParentNone(msg_id) == NULL

\* the message a reply of a rendered top-level comment is attached to
ReplyParentMessage(msg_id) == msg_id

RECURSIVE SendRepliesDeep(_, _, _, _, _)
\* bug: every reply followed by its own replies, to any depth
SendRepliesDeep(replies, acc, user_id, msg_id, F) ==
    IF replies = <<>> THEN acc
    ELSE LET e == send_comment_message("reply", Head(replies), user_id,
                                       ReplyParentMessage(msg_id), F,
                                       Len(acc) + 1)
             below == SendRepliesDeep(RepliesOf(Head(replies).comment_id),
                                      Append(acc, e), user_id, e.msg_id, F)
         IN  SendRepliesDeep(Tail(replies), below, user_id, msg_id, F)

RECURSIVE SendReplies(_, _, _, _, _)
\* for reply in replies: await send_reply_message(..., msg_id)
SendReplies(replies, acc, user_id, msg_id, F) ==
    IF replies = <<>> THEN acc
    ELSE SendReplies(Tail(replies),
                     Append(acc, send_comment_message("reply", Head(replies),
                                user_id, ReplyParentMessage(msg_id), F,
                                Len(acc) + 1)),
                     user_id, msg_id, F)

\* bug: the replies query without its LIMIT
ShownRepliesAll(cid) == RepliesOf(cid)

\* the replies shown under a top-level comment of the page
ShownReplies(cid) == Limit(RepliesOf(cid), replies_per_comment, 0)

\* bug: the show-more control sent before the replies it follows
RenderCommentControlFirst(comment, acc, user_id, F) ==
    LET cid   == comment.comment_id
        e     == send_comment_message("comment", comment, user_id, NULL, F,
                                      Len(acc) + 1)
        acc1  == Append(acc, e)
        more  == {Btn("show_more_replies", cid, 1, 0)}
        acc2  == IF Len(RepliesOf(cid)) > replies_per_comment
                 THEN Append(acc1, Entry("overflow", Node(comment), e.msg_id,
                                         Len(acc1) + 1, "send_message", more))
                 ELSE acc1
    IN  [out |-> SendReplies(ShownReplies(cid), acc2, user_id, e.msg_id, F),
         raised |-> FALSE]

\* one iteration of the loop over the page's top-level comments
RenderComment(comment, acc, user_id, F) ==
    LET cid   == comment.comment_id
        e     == send_comment_message("comment", comment, user_id, NULL, F,
                                      Len(acc) + 1)
        acc1  == Append(acc, e)
        acc2  == SendReplies(ShownReplies(cid), acc1, user_id, e.msg_id, F)
        total_replies == Len(RepliesOf(cid))
        more  == {Btn("show_more_replies", cid, 1, 0)}
    IN  IF total_replies > replies_per_comment
        THEN IF <<"overflow", cid>> \in F
             THEN [out |-> Append(acc2, Entry("overflow", Node(comment),
                                              e.msg_id, NULL, "none", {})),
                   raised |-> TRUE]
             ELSE [out |-> Append(acc2, Entry("overflow", Node(comment),
                                              e.msg_id, Len(acc2) + 1,
                                              "send_message", more)),
                   raised |-> FALSE]
        ELSE [out |-> acc2, raised |-> FALSE]

RECURSIVE RenderComments(_, _, _, _)
\* for comment in comments: ...   (an exception ends the loop)
RenderComments(cs, acc, user_id, F) ==
    IF cs = <<>> THEN [out |-> acc, raised |-> FALSE]
    ELSE LET r == RenderComment(Head(cs), acc, user_id, F)
         IN  IF r.raised THEN r
             ELSE RenderComments(Tail(cs), r.out, user_id, F)

\* bug: the page number taken as zero-based
PageOffsetZeroBased(page) == page * per_page

\* offset = (page - 1) * per_page
PageOffset(page) == (page - 1) * per_page

\* bug: the page count rounded down
TotalPagesFloor(total_comments) == total_comments \div per_page

\* total_pages = (total_comments + per_page - 1) // per_page
TotalPages(total_comments) == (total_comments + per_page - 1) \div per_page

\* bug: the empty-post notice tested against a zero-based first page
NoCommentsYetZeroBased(cs, page) == cs = <<>> /\ page = 0

\* if not comments and page == 1
NoCommentsYet(cs, page) == cs = <<>> /\ page = 1

\* pagination_buttons
PaginationButtons(post_id, page, total_pages) ==
    (IF page > 1 THEN {Btn("viewcomments", post_id, page - 1, 0)} ELSE {})
    \cup
    (IF page < total_pages THEN {Btn("viewcomments", post_id, page + 1, 0)}
     ELSE {})

\* a send outside send_comment_message: a rejection raises
PlainSend(kind, acc, F, kb) ==
    IF <<kind, 0>> \in F
    THEN [out |-> Append(acc, Entry(kind, NoNode, NULL, NULL, "none", {})),
          raised |-> TRUE]
    ELSE [out |-> Append(acc, Entry(kind, NoNode, NULL, Len(acc) + 1,
                                    "send_message", kb)),
          raised |-> FALSE]

\* show_comments_page(update, context, post_id, page): its sends, in order
show_comments_page(post_id, page, user_id, F) ==
    LET loading == IF page = 1
                   THEN <<Entry("loading", NoNode, NULL,
                                IF <<"loading", 0>> \in F THEN NULL ELSE 1,
                                IF <<"loading", 0>> \in F THEN "none"
                                ELSE "send_message", {})>>
                   ELSE <<>>
        cs    == Limit(TopLevel(post_id), per_page, PageOffset(page))
        total_pages == TotalPages(Len(TopLevel(post_id)))
        pb    == PaginationButtons(post_id, page, total_pages)
    IN  IF post_id \notin DOMAIN posts
        THEN PlainSend("notfound", loading, F, {})
        ELSE IF NoCommentsYet(cs, page)
        THEN PlainSend("nocomments", loading, F, {})
        ELSE LET r == RenderComments(cs, loading, user_id, F)
             IN  IF r.raised THEN r
                 ELSE IF pb # {}
                      THEN PlainSend("pagination", r.out, F, pb)
                      ELSE r

\* the send calls of one invocation that the platform may reject: the
\* sends of the invocation over a reliable transport
FaultPoints(post_id, page, user_id) ==
    LET sends == show_comments_page(post_id, page, user_id, {}).out
    IN  UNION {IF sends[i].kind \in {"comment", "reply"}
               THEN {"primary", "fallback"} \X {sends[i].cid}
               ELSE {<<sends[i].kind, sends[i].cid>>} : i \in DOMAIN sends}

RECURSIVE FaultSets(_, _)
\* the subsets of S with at most k elements
FaultSets(S, k) ==
    IF k = 0 THEN {{}}
    ELSE LET T == FaultSets(S, k - 1)
         IN  T \cup {t \cup {x} : t \in T, x \in S}

\* the posts row of post_id as the invocation finds it
PostState(post_id) ==
    IF post_id \notin DOMAIN posts THEN "absent"
    ELSE IF posts[post_id].approved THEN "approved" ELSE "pending"

\* viewcomments_<post_id>_<page>, by button or by deep link
ViewComments(u, post_id, page, F) ==
    LET r == show_comments_page(post_id, page, u, F)
    IN  /\ request' = [post_id |-> post_id, page |-> page, faults |-> F,
                        post |-> PostState(post_id)]
        /\ out' = r.out
        /\ viewer' = u
        /\ raised' = r.raised
        /\ asked' = NoAsk
        /\ UNCHANGED <<posts, comments, nextCid, reactions, users, userdata,
                       lastTap, twice, tapped, lastReply,
                   postVars, dbVars, aura, flight>>

\* ------------------------------------------------------ comment counting
RECURSIVE CountTree(_, _)
\* count_replies(parent_id): the comments below parent_id in the table cs
CountTree(cs, parent_id) ==
    LET kids == SelectSeq(cs, LAMBDA c : c.parent_comment_id = parent_id)
        RECURSIVE Sum(_)
        Sum(i) == IF i > Len(kids) THEN 0
                  ELSE CountTree(cs, kids[i].comment_id) + Sum(i + 1)
    IN  Len(kids) + Sum(1)

\* count_all_comments(post_id): the top-level comments of the post and
\* everything below them
CountAll(cs, post_id) ==
    LET tops == SelectSeq(cs, LAMBDA c : c.post_id = post_id
                                         /\ c.parent_comment_id = 0)
        RECURSIVE Sum(_)
        Sum(i) == IF i > Len(tops) THEN 0
                  ELSE CountTree(cs, tops[i].comment_id) + Sum(i + 1)
    IN  Len(tops) + Sum(1)

\* update_channel_post_comment_count: the posts table afterwards
UpdateCommentCount(ps, cs, post_id) ==
    IF post_id \notin DOMAIN ps \/ ps[post_id].channel_message_id = NULL
    THEN ps
    ELSE [ps EXCEPT ![post_id].comment_count = CountAll(cs, post_id)]

\* ------------------------------------------------ stored comment tables
\* the posts of the stored tables
SeedPosts == {1, 2}
\* the post ids a button or deep link can carry: a stored post or none
PostArgs == SeedPosts \cup {3}
Pages == 1..MaxPage

NewUser == [waiting_for_post |-> FALSE, waiting_for_comment |-> FALSE,
            awaiting_name |-> FALSE, waiting_for_private_message |-> FALSE,
            comment_post_id |-> NULL, comment_idx |-> NULL]
NewUserData == [editing_comment |-> NULL, pending_post |-> FALSE]

\* the message_id of the n-th message of the channel
ChannelMsgId(n) == 100 + n

\* the n-th message of the channel: post post_id, published by user by
ChannelMessage(n, post_id, by) ==
    [msg_id |-> ChannelMsgId(n), post_id |-> post_id, by |-> by,
     deleted |-> FALSE]

NoGone == [post |-> 0, comments |-> 0, reactions |-> 0, how |-> ""]

\* bug: a reply stored with its own id as parent
CommentOwnParent(cid, post_id, parent, author, type) ==
    [comment_id |-> cid, post_id |-> post_id,
     parent_comment_id |-> IF parent = 0 THEN 0 ELSE cid,
     author_id |-> author, type |-> type]

\* a row of the comments table
Comment(cid, post_id, parent, author, type) ==
    [comment_id |-> cid, post_id |-> post_id, parent_comment_id |-> parent,
     author_id |-> author, type |-> type]

SeedAuthor(n) == IF n % 2 = 1 THEN "u1" ELSE "u2"

\* the n-th stored comment after the table s: a top-level comment of a post,
\* a reply to the first comment, or a reply to the comment before it (a
\* reply is stored with its parent's post, as the Reply button carries it)
SeedRows(s, n) ==
    {Comment(n, p, 0, SeedAuthor(n), "text") : p \in SeedPosts}
    \cup {Comment(n, s[k].post_id, k, SeedAuthor(n), "text") :
          k \in {1, n - 1} \cap DOMAIN s}

RECURSIVE SeedTables(_)
\* the stored tables of exactly n comments
SeedTables(n) ==
    IF n = 0 THEN {<<>>}
    ELSE UNION {{Append(s, row) : row \in SeedRows(s, n)} :
                s \in SeedTables(n - 1)}

\* n top-level comments of post 1
FlatTable(n) == [k \in 1..n |-> Comment(k, 1, 0, SeedAuthor(k), "text")]

\* no rating computed yet
NoAura == [user |-> "", rating |-> 0, tier |-> ""]

\* the tables and chats of a bot started over the comment table cs and the
\* reaction table rs
\* the tables and chats at start-up: the posts ps with the channel messages
\* ch, the comments cs and the reactions rs
InitTables(ps, ch, cs, rs) ==
    /\ posts = ps
    /\ nextPid = Cardinality(DOMAIN ps) + 1
    /\ channel = ch
    /\ lastGone = NoGone
    /\ asked = NoAsk
    /\ comments = cs
    /\ nextCid = Len(cs) + 1
    /\ reactions = rs
    /\ users = [u \in Users |-> NewUser]
    /\ userdata = [u \in Users |-> NewUserData]
    /\ request = NoRequest
    /\ out = <<>>
    /\ viewer = ""
    /\ raised = FALSE
    /\ lastTap = NoTap
    /\ twice = NoTwice
    /\ tapped = [u \in Users |-> NoTarget]
    /\ lastReply = NoReply
    /\ aura = NoAura
    /\ flight = {}

\* the seed posts, approved and published by the administrator
InitBot(cs, rs) ==
    InitTables([p \in SeedPosts |->
                    [author_id |-> "u1", approved |-> TRUE,
                     channel_message_id |-> ChannelMsgId(p),
                     vent_number |-> p,
                     comment_count |-> CountAll(cs, p)]],
               [p \in SeedPosts |-> ChannelMessage(p, p, ADMIN_ID)],
               cs, rs)

\* no call of db_execute yet
NoCall == [mode |-> "", sql |-> "", result |-> "", raised |-> FALSE,
           acquired |-> FALSE, rolled_back |-> FALSE, returned |-> FALSE,
           n |-> 0]

\* SimpleConnectionPool(1, 10, ...) succeeded: one connection is pooled
PoolCreated == [made |-> TRUE, conn |-> "ok"]

\* the constructor raised: db_pool = None
PoolNone == [made |-> FALSE, conn |-> "absent"]

\* a bot started over a reachable database that holds the comment table cs
\* and the reaction table rs
InitWith(cs, rs) ==
    /\ InitBot(cs, rs)
    /\ db_pool = PoolCreated
    /\ server = "up"
    /\ dbLast = NoCall

\* a bot started over a database that holds the comment table cs
InitOver(cs) == InitWith(cs, EmptyBag)

InitStored ==
    \E cs \in UNION {SeedTables(n) : n \in 0..MaxSeed}
              \cup {FlatTable(n) : n \in 0..MaxFlat} : InitOver(cs)

\* ------------------------------------------- the renderer as a function
\* one invocation over a reliable transport
View == \E u \in Users, p \in PostArgs, page \in Pages :
            /\ out = <<>>
            /\ ViewComments(u, p, page, {})

\* one invocation over a transport that rejects up to MaxFaults sends
ViewFaulty ==
    \E u \in Users, p \in PostArgs, page \in Pages :
      \E F \in FaultSets(FaultPoints(p, page, u), MaxFaults) :
            /\ out = <<>>
            /\ ViewComments(u, p, page, F)

NextRender == View
SpecRender == InitStored /\ [][NextRender]_vars

NextFault == ViewFaulty
SpecFault == InitStored /\ [][NextFault]_vars

\* ------------------------------------------------------------ reactions
ReactionRow(cid, u, t) == [comment_id |-> cid, user_id |-> u, type |-> t]

\* DELETE FROM reactions: the table rs without the rows in gone
DeleteRows(rs, gone) == [r \in BagToSet(rs) \ gone |-> rs[r]]

\* INSERT INTO reactions: refused without the comment (REFERENCES comments)
\* or with a row of the pair present (UNIQUE(comment_id, user_id)); db_execute
\* turns the IntegrityError into None
InsertReaction(rs, cid, u, t) ==
    IF CommentRow(cid) = {}
       \/ \E r \in BagToSet(rs) : r.comment_id = cid /\ r.user_id = u
    THEN rs
    ELSE rs (+) SetToBag({ReactionRow(cid, u, t)})

\* bug: the toggle-off removes every reaction of the comment
RemoveAllOnComment(rs, cid, u) ==
    DeleteRows(rs, {r \in BagToSet(rs) : r.comment_id = cid})

\* DELETE FROM reactions WHERE comment_id = cid AND user_id = u
RemoveReaction(rs, cid, u) ==
    DeleteRows(rs, {r \in BagToSet(rs) :
                        r.comment_id = cid /\ r.user_id = u})

\* bug: a changed reaction stored as a second row
ChangeReactionByInsert(rs, cid, u, t) == InsertReaction(rs, cid, u, t)

\* UPDATE reactions SET type = t WHERE comment_id = cid AND user_id = u
ChangeReaction(rs, cid, u, t) ==
    LET n == CountReactions(cid, "like") + CountReactions(cid, "dislike")
        mine == BagCardinality(rs)
                - BagCardinality(RemoveReaction(rs, cid, u))
        row  == ReactionRow(cid, u, t)
    IN  IF mine = 0 THEN rs
        ELSE LET rest == RemoveReaction(rs, cid, u)
             IN  [r \in BagToSet(rest) \cup {row} |->
                    IF r = row THEN mine ELSE rest[r]]

\* the reaction branch of button_handler on the reactions table
ApplyReaction(rs, cid, u, t) ==
    LET existing == {r.type : r \in {x \in BagToSet(rs) :
                         x.comment_id = cid /\ x.user_id = u}}
    IN  IF existing # {}
        THEN IF t \in existing
             THEN RemoveReaction(rs, cid, u)
             ELSE ChangeReaction(rs, cid, u, t)
        ELSE InsertReaction(rs, cid, u, t)

\* the keyboard button_handler puts on the message after a reaction
RebuiltKeyboard(comment, user_id) ==
    LET cid == comment.comment_id
    IN  (IF comment.parent_comment_id = 0
         THEN {Btn("likecomment", cid, 0, 0),
               Btn("dislikecomment", cid, 0, 0),
               Btn("reply", comment.post_id, cid, 0)}
         ELSE {Btn("likereply", cid, 0, 0),
               Btn("dislikereply", cid, 0, 0),
               Btn("replytoreply", comment.post_id,
                   comment.parent_comment_id, cid)})
        \cup OwnerButtons(comment, user_id)

\* reaction_type = 'like' if parts[0] in ('likecomment', 'likereply')
ReactionOf(kind) ==
    IF kind \in {"likecomment", "likereply"} THEN "like" ELSE "dislike"

ReactionKinds == {"likecomment", "dislikecomment", "likereply", "dislikereply"}

Had(cid, u) ==
    IF UserReaction(cid, u) = {} THEN "none"
    ELSE CHOOSE t \in UserReaction(cid, u) : TRUE

\* the buttons of message i that user u can tap
Tappable(u, i, kinds) ==
    IF viewer = u /\ i \in DOMAIN out /\ out[i].msg_id # NULL
    THEN {b \in out[i].kb : b.kind \in kinds}
    ELSE {}

\* likecomment_ / dislikecomment_ / likereply_ / dislikereply_
React(u, i, b, hist) ==
    LET cid == b.a
        t   == ReactionOf(b.kind)
        row == CommentRow(cid)
        now == [user |-> u, cid |-> cid, type |-> t,
                likes |-> CountReactions(cid, "like"),
                dislikes |-> CountReactions(cid, "dislike"),
                had |-> Had(cid, u), existed |-> row # {}]
    IN  /\ reactions' = ApplyReaction(reactions, cid, u, t)
        /\ out' = IF row = {} THEN out
                  ELSE [out EXCEPT ![i].kb =
                          RebuiltKeyboard(CHOOSE c \in row : TRUE, u)]
        /\ lastTap' = IF hist THEN now ELSE lastTap
        /\ twice' = IF /\ hist
                       /\ lastTap.user = u /\ lastTap.cid = cid
                       /\ lastTap.type = t
                       /\ lastTap.existed /\ now.existed
                    THEN [hit |-> TRUE, likes |-> lastTap.likes,
                          dislikes |-> lastTap.dislikes, had |-> lastTap.had]
                    ELSE NoTwice
        /\ asked' = NoAsk
        /\ UNCHANGED <<posts, comments, nextCid, users, userdata, request,
                       viewer, raised, tapped, lastReply,
                   postVars, dbVars, aura, flight>>

\* --------------------------------------------------- the comment thread
\* bug: the third field of the payload read for both buttons
ReplyTargetThird(b) == b.b

\* comment_id of reply_<post>_<comment> and
\* replytoreply_<post>_<parent>_<comment>
ReplyTarget(b) == IF b.kind = "reply" THEN b.b ELSE b.c

\* reply_ / replytoreply_
Reply(u, i, b) ==
    /\ users' = [users EXCEPT ![u].waiting_for_comment = TRUE,
                              ![u].comment_post_id = b.a,
                              ![u].comment_idx = ReplyTarget(b)]
    /\ tapped' = [tapped EXCEPT ![u] = [cid |-> out[i].cid,
                                        post |-> out[i].post,
                                        via |-> b.kind]]
    /\ asked' = NoAsk
    /\ UNCHANGED <<posts, comments, nextCid, reactions, userdata, request,
                   out, viewer, raised, lastTap, twice, lastReply,
                   postVars, dbVars, aura, flight>>

\* writecomment_<post>, by button or by deep link
WriteCommentFor(u, post_id) ==
    /\ users' = [users EXCEPT ![u].waiting_for_comment = TRUE,
                              ![u].comment_post_id = post_id]
    /\ tapped' = [tapped EXCEPT ![u] = [cid |-> 0, post |-> post_id,
                                        via |-> "writecomment"]]
    /\ asked' = NoAsk
    /\ UNCHANGED <<posts, comments, nextCid, reactions, userdata, request,
                   out, viewer, raised, lastTap, twice, lastReply,
                   postVars, dbVars, aura, flight>>

\* category_<name>
ChooseCategory(u) ==
    /\ users' = [users EXCEPT ![u].waiting_for_post = TRUE]
    /\ tapped' = [tapped EXCEPT ![u] = NoTarget]
    /\ asked' = NoAsk
    /\ UNCHANGED <<posts, comments, nextCid, reactions, userdata, request,
                   out, viewer, raised, lastTap, twice, lastReply,
                   postVars, dbVars, aura, flight>>

\* reset_user_waiting_states, from cancel_input or a cancel text
CancelInput(u) ==
    /\ users' = [users EXCEPT ![u] = NewUser]
    /\ userdata' = [userdata EXCEPT ![u].editing_comment = NULL]
    /\ tapped' = [tapped EXCEPT ![u] = NoTarget]
    /\ asked' = NoAsk
    /\ UNCHANGED <<posts, comments, nextCid, reactions, request, out, viewer,
                   raised, lastTap, twice, lastReply,
                   postVars, dbVars, aura, flight>>

\* the alerts of the owner and administrator checks
NotYourComment == "You can only edit or delete your own comments"
NotYourPost    == "You can only delete your own posts"
NoPermission   == "You don't have permission to do this."
PostNotFound   == "Post not found."
DeleteFailed   == "Failed to delete post from database."

OnlyTextEdited == "Only text comments can be edited"

\* bug: the author check left out
AnyRow(cid, u) == CommentRow(cid)

\* comment and comment['author_id'] == user_id
OwnRow(cid, u) == {c \in CommentRow(cid) : c.author_id = u}

\* bug: the replies deleted with their parent
WithoutCommentAndReplies(cs, cid) ==
    SelectSeq(cs, LAMBDA x : x.comment_id # cid /\ x.parent_comment_id # cid)

\* DELETE FROM comments WHERE comment_id = cid
WithoutComment(cs, cid) == SelectSeq(cs, LAMBDA x : x.comment_id # cid)

\* delete_comment_<comment>, answered on message i
DeleteComment(u, i, b) ==
    LET cid == b.a
        row == OwnRow(cid, u)
    IN  IF row = {}
        THEN /\ asked' = Ask(u, "delete_comment", cid, NotYourComment)
             /\ UNCHANGED others
        ELSE LET c  == CHOOSE x \in row : TRUE
                 cs == WithoutComment(comments, cid)
                 rs == DeleteRows(reactions,
                        {r \in BagToSet(reactions) : r.comment_id = cid})
             IN  /\ reactions' = rs
                 /\ comments' = cs
                 /\ out' = [out EXCEPT ![i].kind = "deleted", ![i].kb = {}]
                 /\ posts' = UpdateCommentCount(posts, cs, c.post_id)
                 /\ lastTap' = NoTap
                 /\ twice' = NoTwice
                 /\ lastGone' = [post |-> c.post_id, comments |-> 1,
                                 reactions |-> BagCardinality(reactions)
                                                - BagCardinality(rs),
                                 how |-> "delete_comment"]
                 /\ asked' = Ask(u, "delete_comment", cid, "")
                 /\ UNCHANGED <<nextCid, users, userdata, request, viewer,
                                raised, tapped, lastReply, nextPid, channel,
                                dbVars, aura, flight>>

\* edit_comment_<comment>
EditComment(u, cid) ==
    LET row == OwnRow(cid, u)
    IN  IF row = {}
        THEN /\ asked' = Ask(u, "edit_comment", cid, NotYourComment)
             /\ UNCHANGED others
        ELSE IF \E c \in row : c.type # "text"
        THEN /\ asked' = Ask(u, "edit_comment", cid, OnlyTextEdited)
             /\ UNCHANGED others
        ELSE /\ userdata' = [userdata EXCEPT ![u].editing_comment = cid]
             /\ asked' = Ask(u, "edit_comment", cid, "")
             /\ UNCHANGED <<posts, comments, nextCid, reactions, users,
                            request, out, viewer, raised, lastTap, twice,
                            tapped, lastReply, postVars, dbVars, aura, flight>>

\* the largest comment_id the sequence hands out
MaxCid == MaxThread + MaxComments

\* handle_message: a message that is no cancel text
HandleMessage(u, kind) ==
    LET user == users[u] IN
    IF userdata[u].editing_comment # NULL
    THEN /\ userdata' = [userdata EXCEPT ![u].editing_comment = NULL]
         /\ tapped' = [tapped EXCEPT ![u] = NoTarget]
         /\ asked' = NoAsk
         /\ UNCHANGED <<posts, comments, nextCid, reactions, users, request,
                        out, viewer, raised, lastTap, twice, lastReply,
                   postVars, dbVars, aura, flight>>
    ELSE IF user.waiting_for_post
    THEN /\ users' = [users EXCEPT ![u].waiting_for_post = FALSE]
         /\ userdata' = [userdata EXCEPT ![u].pending_post =
                            IF kind = "text" THEN TRUE
                            ELSE @]
         /\ tapped' = [tapped EXCEPT ![u] = NoTarget]
         /\ asked' = NoAsk
         /\ UNCHANGED <<posts, comments, nextCid, reactions, request, out,
                        viewer, raised, lastTap, twice, lastReply,
                   postVars, dbVars, aura, flight>>
    ELSE IF user.waiting_for_comment /\ kind # "other"
    THEN LET post_id == user.comment_post_id
             parent  == user.comment_idx
             stored  == post_id \in DOMAIN posts
             cs      == IF stored
                        THEN Append(comments,
                                    Comment(nextCid, post_id, parent, u, kind))
                        ELSE comments
         IN  /\ nextCid <= MaxCid
             /\ nextCid' = nextCid + 1
             /\ comments' = cs
             /\ users' = [users EXCEPT ![u].waiting_for_comment = FALSE,
                                       ![u].comment_post_id = NULL,
                                       ![u].comment_idx = NULL]
             /\ posts' = UpdateCommentCount(posts, cs, post_id)
             /\ lastReply' = [cid |-> IF stored THEN nextCid ELSE 0,
                              target |-> tapped[u].cid,
                              post |-> tapped[u].post,
                              via |-> tapped[u].via, by |-> u]
             /\ tapped' = [tapped EXCEPT ![u] = NoTarget]
             /\ asked' = NoAsk
             /\ UNCHANGED <<reactions, userdata, request, out, viewer, raised,
                            lastTap, twice,
                   postVars, dbVars, aura, flight>>
    ELSE IF ~user.waiting_for_comment /\ user.waiting_for_private_message
    THEN /\ users' = [users EXCEPT ![u].waiting_for_private_message = FALSE]
         /\ tapped' = [tapped EXCEPT ![u] = NoTarget]
         /\ asked' = NoAsk
         /\ UNCHANGED <<posts, comments, nextCid, reactions, userdata,
                        request, out, viewer, raised, lastTap, twice,
                        lastReply, postVars, dbVars, aura, flight>>
    ELSE IF ~user.waiting_for_comment /\ user.awaiting_name /\ kind = "text"
    THEN /\ users' = [users EXCEPT ![u].awaiting_name = FALSE]
         /\ tapped' = [tapped EXCEPT ![u] = NoTarget]
         /\ asked' = NoAsk
         /\ UNCHANGED <<posts, comments, nextCid, reactions, userdata,
                        request, out, viewer, raised, lastTap, twice,
                        lastReply, postVars, dbVars, aura, flight>>
    ELSE /\ asked' = NoAsk
         /\ UNCHANGED others

\* edit_name
EditName(u) ==
    /\ users' = [users EXCEPT ![u].awaiting_name = TRUE]
    /\ tapped' = [tapped EXCEPT ![u] = NoTarget]
    /\ asked' = NoAsk
    /\ UNCHANGED <<posts, comments, nextCid, reactions, userdata, request,
                   out, viewer, raised, lastTap, twice, lastReply,
                   postVars, dbVars, aura, flight>>

\* message_<user>
MessageUser(u) ==
    /\ users' = [users EXCEPT ![u].waiting_for_private_message = TRUE]
    /\ tapped' = [tapped EXCEPT ![u] = NoTarget]
    /\ asked' = NoAsk
    /\ UNCHANGED <<posts, comments, nextCid, reactions, userdata, request,
                   out, viewer, raised, lastTap, twice, lastReply,
                   postVars, dbVars, aura, flight>>

\* ------------------------------------------------------------ the posts
\* bug: the administrator check passes for everyone
IsAdminAnyone(u) == TRUE

\* is_admin of the users row: set from ADMIN_ID when the row is created
IsAdmin(u) == u = ADMIN_ID

\* the post ids a post button or request can carry
PostIds == 1..(Cardinality(SeedPosts) + MaxPosts)

\* the largest number of channel messages
MaxChannel == Cardinality(SeedPosts) + MaxPosts

\* SELECT MAX(vent_number) FROM posts WHERE approved = TRUE, or 0
MaxVent ==
    LET S == {posts[p].vent_number : p \in {q \in DOMAIN posts :
                                            posts[q].approved}} \ {NULL}
    IN  IF S = {} THEN 0 ELSE CHOOSE n \in S : \A k \in S : k <= n

\* the table ps without the row of post_id
WithoutPost(ps, post_id) == [p \in DOMAIN ps \ {post_id} |-> ps[p]]

\* bug: posts rows deleted whatever references them
PostNeverReferenced(cs, post_id) == TRUE

\* comments.post_id REFERENCES posts: no comment row holds post_id
PostUnreferenced(cs, post_id) == \A i \in DOMAIN cs : cs[i].post_id # post_id

\* DELETE FROM posts WHERE post_id = ...; refused (None) while a comment
\* references the row
DeletePost(ps, cs, post_id) ==
    IF PostUnreferenced(cs, post_id) THEN WithoutPost(ps, post_id) ELSE ps

\* DELETE FROM comments WHERE post_id = ...; refused while a reaction
\* references one of the rows (reactions.comment_id REFERENCES comments)
DeleteCommentsOf(cs, rs, post_id) ==
    LET ids == {cs[i].comment_id : i \in {j \in DOMAIN cs :
                                          cs[j].post_id = post_id}}
    IN  IF \E r \in BagToSet(rs) : r.comment_id \in ids THEN cs
        ELSE SelectSeq(cs, LAMBDA c : c.post_id # post_id)

\* the loop DELETE FROM reactions WHERE comment_id = ... over the comments
\* of the post
DeleteReactionsOf(cs, rs, post_id) ==
    LET ids == {cs[i].comment_id : i \in {j \in DOMAIN cs :
                                          cs[j].post_id = post_id}}
    IN  DeleteRows(rs, {r \in BagToSet(rs) : r.comment_id \in ids})

\* what the row of post_id held when it was removed
Gone(post_id, how) ==
    LET ids == {comments[i].comment_id : i \in {j \in DOMAIN comments :
                                          comments[j].post_id = post_id}}
    IN  [post |-> post_id, comments |-> Cardinality(ids),
         reactions |-> BagCardinality(reactions)
             - BagCardinality(DeleteReactionsOf(comments, reactions, post_id)),
         how |-> how]

\* confirm_post
ConfirmPostFor(u) ==
    IF ~userdata[u].pending_post
    THEN /\ asked' = NoAsk
         /\ UNCHANGED others
    ELSE /\ nextPid <= Cardinality(SeedPosts) + MaxPosts
         /\ posts' = (nextPid :> [author_id |-> u, approved |-> FALSE,
                                  channel_message_id |-> NULL,
                                  vent_number |-> NULL,
                                  comment_count |-> 0]) @@ posts
         /\ nextPid' = nextPid + 1
         /\ userdata' = [userdata EXCEPT ![u].pending_post = FALSE]
         /\ asked' = NoAsk
         /\ UNCHANGED <<comments, nextCid, reactions, users, request, out,
                        viewer, raised, lastTap, twice, tapped, lastReply,
                        channel, lastGone, dbVars, aura, flight>>

\* approve_post_<post_id>: approve_post
ApprovePostFor(u, post_id) ==
    IF ~IsAdmin(u)
    THEN /\ asked' = Ask(u, "approve_post", post_id, NoPermission)
         /\ UNCHANGED others
    ELSE IF post_id \notin DOMAIN posts
    THEN /\ asked' = Ask(u, "approve_post", post_id, PostNotFound)
         /\ UNCHANGED others
    ELSE LET n == Len(channel) + 1 IN
         /\ n <= MaxChannel
         /\ channel' = Append(channel, ChannelMessage(n, post_id, u))
         /\ posts' = [posts EXCEPT ![post_id].approved = TRUE,
                                   ![post_id].channel_message_id =
                                        ChannelMsgId(n),
                                   ![post_id].vent_number = MaxVent + 1]
         /\ asked' = Ask(u, "approve_post", post_id, "")
         /\ UNCHANGED <<comments, nextCid, reactions, users, userdata,
                        request, out, viewer, raised, lastTap, twice, tapped,
                        lastReply, nextPid, lastGone, dbVars, aura, flight>>

\* reject_post_<post_id>: reject_post
RejectPostFor(u, post_id) ==
    IF ~IsAdmin(u)
    THEN /\ asked' = Ask(u, "reject_post", post_id, NoPermission)
         /\ UNCHANGED others
    ELSE IF post_id \notin DOMAIN posts
    THEN /\ asked' = Ask(u, "reject_post", post_id, PostNotFound)
         /\ UNCHANGED others
    ELSE LET ps == DeletePost(posts, comments, post_id) IN
         /\ posts' = ps
         /\ lastGone' = IF post_id \in DOMAIN ps THEN lastGone
                        ELSE Gone(post_id, "reject_post")
         /\ asked' = Ask(u, "reject_post", post_id,
                         IF post_id \in DOMAIN ps THEN DeleteFailed ELSE "")
         /\ UNCHANGED <<comments, nextCid, reactions, users, userdata,
                        request, out, viewer, raised, lastTap, twice, tapped,
                        lastReply, nextPid, channel, dbVars, aura, flight>>

\* POST /api/mini-app/admin/approve-post
HttpApprove(post_id) ==
    /\ posts' = IF post_id \in DOMAIN posts
                THEN [posts EXCEPT ![post_id].approved = TRUE]
                ELSE posts
    /\ asked' = NoAsk
    /\ UNCHANGED <<comments, nextCid, reactions, users, userdata, request,
                   out, viewer, raised, lastTap, twice, tapped, lastReply,
                   postVars, dbVars, aura, flight>>

\* POST /api/mini-app/admin/reject-post
HttpReject(post_id) ==
    LET ps == DeletePost(posts, comments, post_id) IN
    /\ posts' = ps
    /\ lastGone' = IF post_id \in DOMAIN posts /\ post_id \notin DOMAIN ps
                   THEN Gone(post_id, "mini_app_admin_reject_post")
                   ELSE lastGone
    /\ asked' = NoAsk
    /\ UNCHANGED <<comments, nextCid, reactions, users, userdata, request,
                   out, viewer, raised, lastTap, twice, tapped, lastReply,
                   nextPid, channel, dbVars, aura, flight>>

\* confirm_delete_post_<post_id>_<page>
ConfirmDeletePostFor(u, post_id) ==
    IF post_id \notin DOMAIN posts \/ posts[post_id].author_id # u
    THEN /\ asked' = Ask(u, "confirm_delete_post", post_id, NotYourPost)
         /\ UNCHANGED others
    ELSE LET rs == DeleteReactionsOf(comments, reactions, post_id)
             cs == DeleteCommentsOf(comments, rs, post_id)
             ps == DeletePost(posts, cs, post_id)
         IN  /\ channel' = [i \in DOMAIN channel |->
                    IF channel[i].msg_id = posts[post_id].channel_message_id
                    THEN [channel[i] EXCEPT !.deleted = TRUE]
                    ELSE channel[i]]
             /\ reactions' = rs
             /\ comments' = cs
             /\ posts' = ps
             /\ lastGone' = IF post_id \in DOMAIN ps THEN lastGone
                            ELSE Gone(post_id, "confirm_delete_post")
             /\ asked' = Ask(u, "confirm_delete_post", post_id, "")
             /\ UNCHANGED <<nextCid, users, userdata, request, out, viewer,
                            raised, lastTap, twice, tapped, lastReply,
                            nextPid, dbVars, aura, flight>>

\* the users who act in the thread specification
Actors == {"u1"}

InitThread ==
    \E cs \in UNION {SeedTables(n) : n \in 0..MaxThread} : InitOver(cs)

\* the pages opened in the thread specifications: their posts hold at most
\* MaxCid comments, one page
ThreadPages == {1}

InitReact ==
    \E cs \in UNION {SeedTables(n) : n \in 0..MaxReacted} : InitOver(cs)

ViewPage(U) == \E u \in U, p \in PostArgs, page \in ThreadPages :
                    ViewComments(u, p, page, {})

\* hist: whether the tap is recorded in lastTap and twice
TapReaction(U, hist) ==
    \E u \in U, i \in DOMAIN out :
        \E b \in Tappable(u, i, ReactionKinds) : React(u, i, b, hist)

TapReply(U) == \E u \in U, i \in DOMAIN out :
                    \E b \in Tappable(u, i, {"reply", "replytoreply"}) :
                        Reply(u, i, b)

TapDelete(U) == \E u \in U, i \in DOMAIN out :
                    \E b \in Tappable(u, i, {"delete_comment"}) :
                        DeleteComment(u, i, b)

WriteComment(U) == \E u \in U, p \in PostArgs : WriteCommentFor(u, p)

Category(U) == \E u \in U : ChooseCategory(u)

Cancel(U) == \E u \in U : CancelInput(u)

Message(U) == \E u \in U, kind \in MsgKinds : HandleMessage(u, kind)

\* the reaction buttons, tapped by every user
NextReact ==
    \/ ViewPage(Users)
    \/ TapReaction(Users, TRUE)
    \/ TapDelete(Users)
SpecReact == InitReact /\ [][NextReact]_vars

ConfirmPost(U) == \E u \in U : ConfirmPostFor(u)

ApprovePost(U) == \E u \in U, p \in PostIds : ApprovePostFor(u, p)

RejectPost(U) == \E u \in U, p \in PostIds : RejectPostFor(u, p)

ConfirmDeletePost(U) == \E u \in U, p \in PostIds : ConfirmDeletePostFor(u, p)

MiniAppApprove == \E p \in PostIds : HttpApprove(p)

MiniAppReject == \E p \in PostIds : HttpReject(p)

\* the reaction tables over the comment table cs: some users like its
\* first comment
SeedReactions(cs) ==
    {SetToBag({ReactionRow(1, u, "like") : u \in likes}) :
        likes \in IF cs = <<>> THEN {{}} ELSE SUBSET Users}

\* a stored table with reactions on its first comment
InitPost ==
    \E cs \in UNION {SeedTables(n) : n \in 0..MaxReacted} :
        \E rs \in SeedReactions(cs) : InitWith(cs, rs)

\* ------------------------------------------------------------ vent numbers
\* SELECT MAX(vent_number) FROM posts WHERE approved = TRUE over ps, or 0
MaxVentIn(ps) ==
    LET S == {ps[p].vent_number : p \in {q \in DOMAIN ps : ps[q].approved}}
             \ {NULL}
    IN  IF S = {} THEN 0 ELSE CHOOSE n \in S : \A k \in S : k <= n

\* assign_vent_numbers_to_existing_posts: the approved posts without a
\* number get MAX + 1, MAX + 2, ... in timestamp (= post_id) order
assign_vent_numbers_to_existing_posts(ps) ==
    LET todo == {p \in DOMAIN ps :
                    ps[p].approved /\ ps[p].vent_number = NULL}
    IN  [p \in DOMAIN ps |->
            IF p \in todo
            THEN [ps[p] EXCEPT !.vent_number =
                    MaxVentIn(ps) + Cardinality({q \in todo : q <= p})]
            ELSE ps[p]]

\* fix_vent_numbers: the approved posts are numbered 1, 2, ... in timestamp
\* order
Renumbered(ps) ==
    [p \in DOMAIN ps |->
        IF ps[p].approved
        THEN [ps[p] EXCEPT !.vent_number =
                Cardinality({q \in DOMAIN ps : ps[q].approved /\ q <= p})]
        ELSE ps[p]]

\* /fixventnumbers
FixVentNumbers(u) ==
    IF ~IsAdmin(u)
    THEN /\ asked' = Ask(u, "fix_vent_numbers", 0, NoPermission)
         /\ UNCHANGED others
    ELSE /\ posts' = Renumbered(posts)
         /\ asked' = Ask(u, "fix_vent_numbers", 0, "")
         /\ UNCHANGED <<comments, nextCid, reactions, users, userdata,
                        request, out, viewer, raised, lastTap, twice, tapped,
                        lastReply, postVars, dbVars, aura, flight>>

\* approve_post up to the awaited channel send: the permission and post
\* tests and the read of the next vent number
BeginApprove(u, post_id) ==
    IF ~IsAdmin(u)
    THEN /\ asked' = Ask(u, "approve_post", post_id, NoPermission)
         /\ UNCHANGED others
    ELSE IF post_id \notin DOMAIN posts
    THEN /\ asked' = Ask(u, "approve_post", post_id, PostNotFound)
         /\ UNCHANGED others
    ELSE /\ Cardinality(flight) < MaxFlight
         /\ flight' = flight \cup {[post |-> post_id, by |-> u,
                                    vent |-> MaxVent + 1]}
         /\ asked' = NoAsk
         /\ UNCHANGED <<botVars, dbVars, aura>>

\* approve_post from the channel send on: the message is in the channel
\* and the UPDATE writes the number read before the send
FinishApprove(f) ==
    LET n == Len(channel) + 1 IN
    /\ f \in flight
    /\ n <= MaxChannel
    /\ channel' = Append(channel, ChannelMessage(n, f.post, f.by))
    /\ posts' = IF f.post \in DOMAIN posts
                THEN [posts EXCEPT ![f.post].approved = TRUE,
                                   ![f.post].channel_message_id =
                                        ChannelMsgId(n),
                                   ![f.post].vent_number = f.vent]
                ELSE posts
    /\ flight' = flight \ {f}
    /\ asked' = Ask(f.by, "approve_post", f.post, "")
    /\ UNCHANGED <<comments, nextCid, reactions, users, userdata, request,
                   out, viewer, raised, lastTap, twice, tapped, lastReply,
                   nextPid, lastGone, dbVars, aura>>

\* main on a start of the process: the handlers of the process before are
\* gone with their context.user_data, and the approved posts without a
\* number are numbered
Startup ==
    /\ posts' = assign_vent_numbers_to_existing_posts(posts)
    /\ flight' = {}
    /\ userdata' = [u \in Users |-> NewUserData]
    /\ asked' = NoAsk
    /\ UNCHANGED <<comments, nextCid, reactions, users, request, out,
                   viewer, raised, lastTap, twice, tapped, lastReply,
                   postVars, dbVars, aura>>

\* the posts tables found at start-up: each post pending, or approved over
\* HTTP and not numbered yet
VentTables ==
    {[p \in PostIds |->
        [author_id |-> "u1", approved |-> p \in A,
         channel_message_id |-> NULL, vent_number |-> NULL,
         comment_count |-> 0]] : A \in SUBSET PostIds}

InitVent ==
    \E ps \in VentTables :
        /\ InitTables(assign_vent_numbers_to_existing_posts(ps), <<>>,
                      <<>>, EmptyBag)
        /\ db_pool = PoolCreated
        /\ server = "up"
        /\ dbLast = NoCall

StartApprove(U) == \E u \in U, p \in PostIds : BeginApprove(u, p)

EndApprove == \E f \in flight : FinishApprove(f)

FixVent(U) == \E u \in U : FixVentNumbers(u)

\* the writers of approved and vent_number
NextVent ==
    \/ StartApprove({ADMIN_ID})
    \/ EndApprove
    \/ FixVent({ADMIN_ID})
    \/ Startup
    \/ MiniAppApprove
    \/ MiniAppReject
SpecVent == InitVent /\ [][NextVent]_vars

\* ------------------------------------------------------ show more replies
\* show_more_replies(update, context, comment_id, page), from the control on
\* message i.  user_id is what send_comment_message finds in
\* context._user_id, which this handler does not set.
ShowMoreReplies(u, i, b, user_id) ==
    LET cid == b.a
        page == b.b
        row == CommentRow(cid)
    IN  IF row = {}
        THEN /\ asked' = NoAsk
             /\ UNCHANGED others
        ELSE LET c       == CHOOSE x \in row : TRUE
                 replies == Limit(RepliesOf(cid), replies_per_page,
                                  (page - 1) * replies_per_page)
                 total_replies == Len(RepliesOf(cid))
                 total_pages == (total_replies + replies_per_page - 1)
                                    \div replies_per_page
                 anchor  == out[i].reply_to
                 out1    == [out EXCEPT ![i].kind = "deleted", ![i].kb = {}]
                 out2    == SendReplies(replies, out1, user_id, anchor, {})
                 more    == {Btn("show_more_replies", cid, page + 1, 0)}
             IN  /\ out' = IF page < total_pages
                           THEN Append(out2, Entry("overflow", Node(c), anchor,
                                                   Len(out2) + 1,
                                                   "send_message", more))
                           ELSE out2
                 /\ asked' = NoAsk
                 /\ UNCHANGED <<posts, comments, nextCid, reactions, users,
                                userdata, request, viewer, raised, lastTap,
                                twice, tapped, lastReply, postVars, dbVars,
                                aura, flight>>

\* a top-level comment of post 1 with n replies
ReplyTable(n) ==
    [k \in 1..(n + 1) |-> Comment(k, 1, IF k = 1 THEN 0 ELSE 1,
                                  SeedAuthor(k), "text")]

InitMore ==
    \E cs \in UNION {SeedTables(n) : n \in 0..MaxThread}
              \cup {ReplyTable(n) : n \in 0..MaxReplies} : InitOver(cs)

TapShowMore(U) ==
    \E u \in U, i \in DOMAIN out :
        \E b \in Tappable(u, i, {"show_more_replies"}) :
            \E user_id \in {"", u} : ShowMoreReplies(u, i, b, user_id)

\* a page is opened and its show-more controls are pressed
NextMore ==
    \/ ViewPage(Users)
    \/ TapShowMore(Users)
SpecMore == InitMore /\ [][NextMore]_vars

\* ----------------------------------------------------------- input states
Name(U) == \E u \in U : EditName(u)

PrivateMessage(U) == \E u \in U : MessageUser(u)

\* the buttons that ask for input, the messages that answer them, and cancel
NextInput ==
    \/ Category(Actors)
    \/ WriteComment(Actors)
    \/ Name(Actors)
    \/ PrivateMessage(Actors)
    \/ Message(Actors)
    \/ Cancel(Actors)
SpecInput == InitReact /\ [][NextInput]_vars

\* ------------------------------------------------------------------ aura
\* COUNT(*) FROM posts WHERE author_id = u AND approved = TRUE, plus
\* COUNT(*) FROM comments WHERE author_id = u
calculate_user_rating(u) ==
    Cardinality({p \in DOMAIN posts :
                    posts[p].author_id = u /\ posts[p].approved})
    + Cardinality({i \in DOMAIN comments : comments[i].author_id = u})

\* bug: the thresholds compared with > instead of >=
format_aura_above(rating) ==
    IF rating > 100 THEN "purple"
    ELSE IF rating > 50 THEN "blue"
    ELSE IF rating > 25 THEN "green"
    ELSE IF rating > 10 THEN "yellow"
    ELSE "white"

\* the five markers, named by their colour
format_aura(rating) ==
    IF rating >= 100 THEN "purple"
    ELSE IF rating >= 50 THEN "blue"
    ELSE IF rating >= 25 THEN "green"
    ELSE IF rating >= 10 THEN "yellow"
    ELSE "white"

\* rating = calculate_user_rating(user_id); format_aura(rating)
ShowRating(u) ==
    /\ aura' = [user |-> u, rating |-> calculate_user_rating(u),
                tier |-> format_aura(calculate_user_rating(u))]
    /\ asked' = NoAsk
    /\ UNCHANGED <<botVars, dbVars, flight>>

\* format_aura on a rating of any size
FormatAura(rating) ==
    /\ aura' = [user |-> "", rating |-> rating, tier |-> format_aura(rating)]
    /\ asked' = NoAsk
    /\ UNCHANGED <<botVars, dbVars, flight>>

Rating(U) == \E u \in U : ShowRating(u)

AnyRating == \E rating \in 0..MaxRating : FormatAura(rating)

\* posts are submitted, the administrator approves them, and ratings are
\* computed
NextAura ==
    \/ Category(Actors)
    \/ Message(Actors)
    \/ ConfirmPost(Actors)
    \/ ApprovePost({ADMIN_ID})
    \/ Rating(Users)
    \/ AnyRating
SpecAura == InitReact /\ [][NextAura]_vars

\* ------------------------------------------------------ database helpers
\* fetch / fetchone / neither
Modes == {"execute", "fetchone", "fetch"}

\* how the server answers the statement: it runs and finds rows, it runs and
\* finds none, or it is refused (constraint, syntax, type)
Statements == {"rows", "norow", "error"}

\* cur.fetchall() / cur.fetchone() / True
Result(mode, sql) ==
    CASE mode = "fetch"    -> IF sql = "norow" THEN "[]" ELSE "list"
      [] mode = "fetchone" -> IF sql = "norow" THEN "None" ELSE "row"
      [] OTHER             -> "True"

\* the record of one call
Call(mode, sql, result, exc, acquired, rolled_back, returned) ==
    [mode |-> mode, sql |-> sql, result |-> result, raised |-> exc,
     acquired |-> acquired, rolled_back |-> rolled_back,
     returned |-> returned, n |-> dbLast.n + 1]

\* db_execute(query, params, fetch, fetchone); db_fetch_one and db_fetch_all
\* are the calls with mode "fetchone" and "fetch"
db_execute(mode, sql) ==
    /\ dbLast.n < MaxCalls
    /\ asked' = NoAsk
    /\ UNCHANGED <<botVars, server, aura, flight>>
    /\ IF ~db_pool.made
       THEN \* db_pool is None: getconn raises AttributeError, conn is None
            /\ dbLast' = Call(mode, sql, "None", FALSE, FALSE, FALSE, FALSE)
            /\ UNCHANGED db_pool
       ELSE IF db_pool.conn = "absent" /\ server = "down"
       THEN \* the pool is empty and cannot connect: getconn raises
            /\ dbLast' = Call(mode, sql, "None", FALSE, FALSE, FALSE, FALSE)
            /\ UNCHANGED db_pool
       ELSE IF db_pool.conn = "closed"
       THEN \* the pooled connection was lost: the statement raises, and in
            \* the except block conn.rollback() raises on the dead
            \* connection; finally hands it back and the pool discards it
            /\ dbLast' = Call(mode, sql, "", TRUE, TRUE, FALSE, TRUE)
            /\ db_pool' = [db_pool EXCEPT !.conn = "absent"]
       ELSE IF sql = "error"
       THEN /\ dbLast' = Call(mode, sql, "None", FALSE, TRUE, TRUE, TRUE)
            /\ db_pool' = [db_pool EXCEPT !.conn = "ok"]
       ELSE /\ dbLast' = Call(mode, sql, Result(mode, sql), FALSE, TRUE,
                              FALSE, TRUE)
            /\ db_pool' = [db_pool EXCEPT !.conn = "ok"]

\* the server stops: its connections are lost
ServerDown ==
    /\ server = "up"
    /\ server' = "down"
    /\ db_pool' = [db_pool EXCEPT
                      !.conn = IF @ = "ok" THEN "closed" ELSE @]
    /\ asked' = NoAsk
    /\ UNCHANGED <<botVars, dbLast, aura, flight>>

ServerUp ==
    /\ server = "down"
    /\ server' = "up"
    /\ asked' = NoAsk
    /\ UNCHANGED <<botVars, db_pool, dbLast, aura, flight>>

\* the server closes the idle pooled connection
DropConnection ==
    /\ server = "up"
    /\ db_pool.conn = "ok"
    /\ db_pool' = [db_pool EXCEPT !.conn = "closed"]
    /\ asked' = NoAsk
    /\ UNCHANGED <<botVars, server, dbLast, aura, flight>>

DbCall == \E mode \in Modes, sql \in Statements : db_execute(mode, sql)

\* the module is imported with the server reachable or not
InitDb ==
    /\ InitBot(<<>>, EmptyBag)
    /\ dbLast = NoCall
    /\ \/ server = "up" /\ db_pool = PoolCreated
       \/ server = "down" /\ db_pool = PoolNone

NextDb ==
    \/ DbCall
    \/ ServerDown
    \/ ServerUp
    \/ DropConnection
SpecDb == InitDb /\ [][NextDb]_vars

\* the messages of u's chat that carry buttons
Pressable(u) ==
    {i \in DOMAIN out :
        viewer = u /\ out[i].msg_id # NULL /\ out[i].kind # "deleted"}

\* callback data is sent by the client: a delete_comment_ or edit_comment_
\* query may name any comment id
CallbackDelete(U) ==
    \E u \in U, cid \in 1..MaxCid : \E i \in Pressable(u) :
        DeleteComment(u, i, Btn("delete_comment", cid, 0, 0))

CallbackEdit(U) ==
    \E u \in U, cid \in 1..MaxCid : \E i \in Pressable(u) :
        EditComment(u, cid)

\* a stored thread with reactions on its first comment
InitOwner ==
    \E cs \in UNION {SeedTables(n) : n \in 0..MaxThread} :
        \E rs \in SeedReactions(cs) : InitWith(cs, rs)

\* the owner checks: every user views and asks to edit and delete any
\* comment; one user reacts and writes
NextOwner ==
    \/ ViewPage(Users)
    \/ TapReaction(Actors, FALSE)
    \/ CallbackDelete(Users)
    \/ CallbackEdit(Users)
    \/ Message(Actors)
SpecOwner == InitOwner /\ [][NextOwner]_vars

\* the posts from submission to removal: one user writes, every user
\* decides on posts
NextPost ==
    \/ Category(Actors)
    \/ Message(Actors)
    \/ ConfirmPost(Actors)
    \/ ApprovePost(Users)
    \/ RejectPost(Users)
    \/ ConfirmDeletePost(Users)
    \/ MiniAppApprove
    \/ MiniAppReject
SpecPost == InitPost /\ [][NextPost]_vars

\* posts submitted, commented and viewed before any decision on them
NextPending ==
    \/ Category(Actors)
    \/ Message(Actors)
    \/ ConfirmPost(Actors)
    \/ WriteComment(Actors)
    \/ ViewPage(Actors)
SpecPending == InitReact /\ [][NextPending]_vars

\* the comment thread, driven by one user
Next ==
    \/ ViewPage(Actors)
    \/ TapReaction(Actors, FALSE)
    \/ TapReply(Actors)
    \/ WriteComment(Actors)
    \/ Cancel(Actors)
    \/ Message(Actors)
Spec == InitThread /\ [][Next]_vars

\* ------------------------------------------------ reading an invocation
\* the comment ids of the messages of the given kind, in send order
IdsSent(kind) ==
    LET es == SelectSeq(out, LAMBDA e : e.kind = kind)
    IN  [i \in DOMAIN es |-> es[i].cid]

\* the number of sends of the given kind
NumSent(kind) == Len(IdsSent(kind))

\* the renderer has run for an existing post
Rendered == out # <<>> /\ request.post_id \in DOMAIN posts

\* the ids of the top-level comments of the requested post
TopIds == {c.comment_id : c \in {x \in Range(comments) :
              x.post_id = request.post_id /\ x.parent_comment_id = 0}}

\* how many top-level comments of the post were created before comment id
Rank(id) == Cardinality({x \in TopIds : x < id})

\* ceil(n / 5), from its definition
Ceil5(n) == CHOOSE k \in 0..n : k * 5 >= n /\ (k = 0 \/ (k - 1) * 5 < n)

\* the ids at positions [(p-1)*5, p*5) of the top-level comments by age
PageIds == {x \in TopIds : /\ Rank(x) >= (request.page - 1) * 5
                           /\ Rank(x) < request.page * 5}

Increasing(ids) == \A i, j \in DOMAIN ids : i < j => ids[i] < ids[j]

\* C1: an existing post without top-level comments, page 1: exactly one
\* "No comments yet" message, and no comment, reply, reply-overflow or
\* pagination message
C1_NoCommentsYet ==
    (Rendered /\ request.page = 1 /\ TopIds = {}) =>
        /\ NumSent("nocomments") = 1
        /\ NumSent("comment") = 0
        /\ NumSent("reply") = 0
        /\ NumSent("overflow") = 0
        /\ NumSent("pagination") = 0

C1_Witness ==
    /\ Rendered /\ request.page = 1 /\ TopIds = {}
    /\ comments # <<>>
    /\ NumSent("nocomments") = 1

\* C2: page p of a post renders exactly the top-level comments at positions
\* [(p-1)*5, p*5) of the post's top-level comments by creation time, oldest
\* first, and never more than 5
C2_PageSlice ==
    Rendered =>
        LET ids == IdsSent("comment")
        IN  /\ Range(ids) = PageIds
            /\ Increasing(ids)
            /\ Len(ids) <= 5

C2_Witness ==
    /\ Rendered /\ request.page = 2
    /\ Cardinality(TopIds) > 5
    /\ NumSent("comment") >= 1

\* the pagination control offers the given page
Offers(page) ==
    \E i \in DOMAIN out :
        /\ out[i].kind = "pagination"
        /\ Btn("viewcomments", request.post_id, page, 0) \in out[i].kb

\* C3: at most one pagination control per invocation; "newer" (page p+1) is
\* offered exactly when p < ceil(N/5) and "older" (page p-1) exactly when
\* p > 1, so pages 1..ceil(N/5) offer ceil(N/5)-1 forward transitions and a
\* post with N <= 5 has no control on page 1
C3_Pagination ==
    Rendered =>
        LET N == Cardinality(TopIds)
            p == request.page
        IN  /\ NumSent("pagination") <= 1
            /\ Offers(p + 1) <=> p < Ceil5(N)
            /\ Offers(p - 1) <=> p > 1
            /\ (N <= 5 /\ p = 1) => NumSent("pagination") = 0
            /\ \A i \in DOMAIN out :
                 out[i].kind = "pagination" => i = Len(out)

C3_Witness ==
    /\ Rendered
    /\ Offers(request.page + 1)
    /\ Offers(request.page - 1)
    /\ NumSent("pagination") = 1

\* the depth the renderer descends to: top-level comments (0) and their
\* direct replies (1); send_reply_message renders no replies of a reply
MaxRenderedDepth == 1

\* C11: a request whose post_id references no existing, approved post is
\* answered with the 'Post not found' message alone: no comment, reply,
\* overflow, pagination or 'No comments yet' message is sent
C11_PostNotFound ==
    (out # <<>> /\ request.post \in {"absent", "pending"}) =>
        /\ NumSent("notfound") = 1
        /\ \A k \in {"comment", "reply", "overflow", "pagination",
                      "nocomments"} : NumSent(k) = 0

\* C12: every comment with a non-zero parent_comment_id references a stored
\* comment of the same post
C12_ParentOnSamePost ==
    \A c \in Range(comments) :
        c.parent_comment_id # 0 =>
            \E x \in CommentRow(c.parent_comment_id) :
                x.post_id = c.post_id

\* C13: every channel message was sent by approve_post for the
\* administrator, a published post has such a message, and an approve or
\* reject request of another user is answered with the permission alert
\* and changes neither the posts table nor the channel
C13_AdminOnly ==
    /\ [](/\ \A i \in DOMAIN channel : channel[i].by = ADMIN_ID
          /\ \A p \in DOMAIN posts :
                posts[p].channel_message_id # NULL =>
                    \E i \in DOMAIN channel :
                        /\ channel[i].post_id = p
                        /\ channel[i].msg_id = posts[p].channel_message_id)
    /\ [][(asked'.kind \in {"approve_post", "reject_post"}
           /\ asked'.by # ADMIN_ID)
          => /\ asked'.alert = NoPermission
             /\ posts' = posts
             /\ channel' = channel]_vars

C13_Witness ==
    /\ asked.kind = "approve_post"
    /\ asked.by # ADMIN_ID
    /\ asked.arg \in DOMAIN posts
    /\ ~posts[asked.arg].approved
    /\ posts[asked.arg].channel_message_id = NULL

\* the post ids handed out whose row is gone
RemovedPosts == (1..(nextPid - 1)) \ DOMAIN posts

\* C14: once a post row has been removed (confirmed deletion by the author,
\* rejection), no comment row holds its post_id and no reaction row is left
\* on a comment that is gone
C14_PostCascade ==
    /\ \A c \in Range(comments) : c.post_id \notin RemovedPosts
    /\ \A r \in BagToSet(reactions) : CommentRow(r.comment_id) # {}

C14_Witness ==
    /\ lastGone.how = "confirm_delete_post"
    /\ lastGone.comments > 0
    /\ lastGone.reactions > 0
    /\ lastGone.post \in RemovedPosts

\* the ids of the replies to comment cid among the messages, in send order
SentRepliesOf(cid) ==
    LET es == SelectSeq(out, LAMBDA e :
                  /\ e.kind = "reply"
                  /\ \E c \in CommentRow(e.cid) : c.parent_comment_id = cid)
    IN  [i \in DOMAIN es |-> es[i].cid]

\* the ids of the first n replies to comment cid, oldest first
FirstReplyIds(cid, n) ==
    LET rs == RepliesOf(cid)
    IN  [i \in 1..Min(n, Len(rs)) |-> rs[i].comment_id]

\* C15 as claimed: under every rendered comment the page shows all the
\* comments whose parent_comment_id is its id, oldest first
C15_Original ==
    Rendered =>
        \A i \in DOMAIN out :
            out[i].kind \in {"comment", "reply"} =>
                SentRepliesOf(out[i].cid)
                    = FirstReplyIds(out[i].cid, Len(comments))

\* C15 amended: under every rendered top-level comment the page shows the
\* first 3 comments whose parent_comment_id is its id, oldest first, and no
\* further reply; under a rendered reply it shows none
C15_Amended ==
    Rendered =>
        \A i \in DOMAIN out :
            /\ out[i].kind = "comment" =>
                    SentRepliesOf(out[i].cid) = FirstReplyIds(out[i].cid, 3)
            /\ out[i].kind = "reply" => SentRepliesOf(out[i].cid) = <<>>

C15_Witness ==
    /\ Rendered
    /\ \E i \in DOMAIN out :
            /\ out[i].kind = "comment"
            /\ Len(RepliesOf(out[i].cid)) > 3
            /\ Len(SentRepliesOf(out[i].cid)) = 3

\* C16: on every message that shows a comment, the keyboard the viewer gets
\* has an edit button exactly when the viewer wrote the comment and it is a
\* text comment, and a delete button exactly when the viewer wrote it
C16_OwnerButtons ==
    \A i \in DOMAIN out :
        (out[i].kind \in {"comment", "reply"} /\ out[i].msg_id # NULL) =>
            \A c \in CommentRow(out[i].cid) :
                /\ Btn("edit_comment", c.comment_id, 0, 0) \in out[i].kb
                        <=> (c.author_id = viewer /\ c.type = "text")
                /\ Btn("delete_comment", c.comment_id, 0, 0) \in out[i].kb
                        <=> c.author_id = viewer

\* the author of comment cid, when it exists, is not u
NotAuthor(u, cid) == \E c \in CommentRow(cid) : c.author_id # u

\* C17: an edit_comment_ or delete_comment_ request for an existing comment
\* by a user who is not its author is answered with an alert and leaves the
\* comments table, the reactions table and the editing state as they were
C17_NonAuthorRefused ==
    [][(/\ asked'.kind \in {"edit_comment", "delete_comment"}
        /\ NotAuthor(asked'.by, asked'.arg))
       => /\ asked'.alert = NotYourComment
          /\ comments' = comments
          /\ reactions' = reactions
          /\ userdata' = userdata]_vars

C17_Witness ==
    /\ asked.kind \in {"edit_comment", "delete_comment"}
    /\ NotAuthor(asked.by, asked.arg)
    /\ \E r \in BagToSet(reactions) : r.comment_id = asked.arg
    /\ asked.alert = NotYourComment

\* C18: a delete_comment_ request by the author of the comment removes that
\* comment's row and the reaction rows on it; every other comment row, its
\* replies with their parent_comment_id included, and every other reaction
\* row stay as they were
C18_DeleteExactlyOne ==
    [][(/\ asked'.kind = "delete_comment"
        /\ \E c \in CommentRow(asked'.arg) : c.author_id = asked'.by)
       => /\ comments' = SelectSeq(comments,
                             LAMBDA c : c.comment_id # asked'.arg)
          /\ \A r \in BagToSet(reactions) \cup BagToSet(reactions') :
                CopiesIn(r, reactions') =
                    IF r.comment_id = asked'.arg THEN 0
                    ELSE CopiesIn(r, reactions)]_vars

C18_Witness ==
    /\ asked.kind = "delete_comment"
    /\ asked.alert = ""
    /\ lastGone.how = "delete_comment"
    /\ lastGone.reactions > 0
    /\ CommentRow(asked.arg) = {}
    /\ \E c \in Range(comments) : c.parent_comment_id = asked.arg
    /\ \E r \in BagToSet(reactions) : r.comment_id # asked.arg

\* the last call met a database error: no pool, no connection, a lost
\* connection or a refused statement
DbError ==
    \/ dbLast.raised
    \/ ~dbLast.acquired
    \/ dbLast.sql = "error"

\* C19: a call of db_execute, db_fetch_one or db_fetch_all does not raise;
\* on a database error it returns None, and a connection it acquired has
\* been rolled back and handed back to the pool
C19_NeverRaises ==
    dbLast.n > 0 =>
        /\ ~dbLast.raised
        /\ DbError =>
              /\ dbLast.result = "None"
              /\ dbLast.acquired =>
                    (dbLast.rolled_back /\ dbLast.returned)

\* the top-level comment that message j belongs to: the parent of the reply
\* it shows, or the comment its show-more control names
OwnerOf(j) ==
    IF out[j].kind = "reply"
    THEN {c.parent_comment_id : c \in CommentRow(out[j].cid)}
    ELSE {out[j].cid}

\* C20: every reply and every show-more control follows the message of its
\* top-level comment with nothing but that comment's replies in between, so
\* the messages of one top-level comment are sent together and before the
\* next top-level comment; the pagination control is the last message
C20_DepthFirst ==
    Rendered =>
        \A j \in DOMAIN out :
            /\ out[j].kind \in {"reply", "overflow"} =>
                  \E i \in 1..(j - 1) :
                      /\ out[i].kind = "comment"
                      /\ out[i].cid \in OwnerOf(j)
                      /\ \A k \in (i + 1)..(j - 1) : out[k].kind = "reply"
            /\ out[j].kind = "pagination" => j = Len(out)

C20_Witness ==
    /\ Rendered
    /\ \E i, j, k \in DOMAIN out :
            /\ i < j /\ j < k
            /\ out[i].kind = "comment"
            /\ out[j].kind = "overflow" /\ out[j].cid = out[i].cid
            /\ out[j - 1].kind = "reply"
            /\ out[k].kind = "comment"

\* the send calls that carry author_text, as text or as caption
CarriesAuthorText(method) ==
    method \in {"send_message", "send_voice", "send_animation", "fallback"}

\* the like, dislike and Reply buttons are all in the keyboard kb
HasActionRow(kb) ==
    /\ \E b \in kb : b.kind \in {"likecomment", "likereply"}
    /\ \E b \in kb : b.kind \in {"dislikecomment", "dislikereply"}
    /\ \E b \in kb : b.kind \in {"reply", "replytoreply"}

\* C21: every delivered node is rendered with its author attribution and
\* its action row (like, dislike, Reply): on the message itself, or, for a
\* sticker, on a separate message sent after it for the same comment
C21_StickerAttributed ==
    \A i \in DOMAIN out :
        (out[i].kind \in {"comment", "reply"} /\ out[i].msg_id # NULL) =>
            \/ CarriesAuthorText(out[i].method) /\ HasActionRow(out[i].kb)
            \/ /\ out[i].method = "send_sticker"
               /\ \E j \in (i + 1)..Len(out) :
                      /\ out[j].cid = out[i].cid
                      /\ out[j].kind \in {"comment", "reply"}
                      /\ CarriesAuthorText(out[j].method)
                      /\ HasActionRow(out[j].kb)

\* the tiers in ascending order
Tiers == <<"white", "yellow", "green", "blue", "purple">>

\* the position of a tier in Tiers
TierIndex(tier) == CHOOSE i \in DOMAIN Tiers : Tiers[i] = tier

\* C22: a rating computed for a user is the number of that user's approved
\* posts plus the number of that user's comments; the tier of a rating is
\* the one of five given by the boundaries 10, 25, 50 and 100, and no
\* smaller rating has a higher tier
C22_Aura ==
    /\ [](aura.tier # "" =>
            /\ aura.tier \in Range(Tiers)
            /\ TierIndex(aura.tier) =
                  1 + Cardinality({b \in {10, 25, 50, 100} : b <= aura.rating})
            /\ \A r \in 0..aura.rating :
                  TierIndex(format_aura(r)) <= TierIndex(aura.tier))
    /\ [][(aura'.user # "" /\ aura' # aura) =>
            aura'.rating =
                Cardinality({p \in DOMAIN posts :
                    posts[p].author_id = aura'.user /\ posts[p].approved})
                + Cardinality({c \in Range(comments) :
                    c.author_id = aura'.user})]_vars

C22_Witness ==
    /\ aura.user # ""
    /\ aura.rating > 0
    /\ aura.tier = "white"
    /\ \E p \in DOMAIN posts :
            posts[p].author_id = aura.user /\ ~posts[p].approved
    /\ aura.rating < Cardinality({p \in DOMAIN posts :
                                    posts[p].author_id = aura.user})
                     + Cardinality({c \in Range(comments) :
                                    c.author_id = aura.user})

\* C23: for every post, count_all_comments gives the number of comment rows
\* whose post_id is that post
C23_CountsAllRows ==
    \A p \in DOMAIN posts :
        CountAll(comments, p) =
            Cardinality({i \in DOMAIN comments : comments[i].post_id = p})

\* C24: a comment stored after the user tapped Write Comment for post P is
\* a top-level comment of P
C24_WriteCommentTopLevel ==
    lastReply.via = "writecomment" =>
        \A c \in CommentRow(lastReply.cid) :
            /\ c.post_id = lastReply.post
            /\ c.parent_comment_id = 0

\* the input-state flags of the users row
InputFlags == {"waiting_for_post", "waiting_for_comment", "awaiting_name",
               "waiting_for_private_message"}

\* C25: for every user at most one input-state flag is TRUE
C25_OneInputState ==
    \A u \in Users :
        Cardinality({f \in InputFlags : users[u][f]}) <= 1

\* no show-more control for comment cid is on offer
NoMoreOffered(cid) ==
    \A j \in DOMAIN out :
        ~(out[j].kind = "overflow" /\ out[j].cid = cid /\ out[j].kb # {})

\* C26: once a rendered top-level comment has no show-more control on offer
\* (none was needed, or the controls were pressed until none was left), each
\* of its direct replies has been rendered exactly once, oldest first
C26_EachReplyOnce ==
    Rendered =>
        \A i \in DOMAIN out :
            (out[i].kind = "comment" /\ NoMoreOffered(out[i].cid)) =>
                SentRepliesOf(out[i].cid)
                    = FirstReplyIds(out[i].cid, Len(comments))

C29_PublishedOnce ==
    [][(/\ asked'.kind = "approve_post"
        /\ asked'.arg \in DOMAIN posts
        /\ posts[asked'.arg].approved)
       => /\ channel' = channel
          /\ posts'[asked'.arg].vent_number = posts[asked'.arg].vent_number
          /\ posts'[asked'.arg].channel_message_id =
                posts[asked'.arg].channel_message_id]_vars

\* the pending posts that the step approves
Approved(ps, qs) ==
    {p \in DOMAIN ps \cap DOMAIN qs : ~ps[p].approved /\ qs[p].approved}

\* the pending posts that the step removes
Removed(ps, qs) == {p \in DOMAIN ps \ DOMAIN qs : ~ps[p].approved}

\* C30: a post goes from pending to approved only in a step that answers an
\* approve request of an administrator, and a pending post is removed by
\* rejection only in a step that answers a reject request of an
\* administrator, the HTTP entry points included
C30_AdminRequestOnly ==
    [][/\ Approved(posts, posts') # {}
            => asked'.kind = "approve_post" /\ IsAdmin(asked'.by)
       /\ (Removed(posts, posts') # {}
             /\ lastGone'.how # "confirm_delete_post")
            => asked'.kind = "reject_post" /\ IsAdmin(asked'.by)]_vars

PairRows(cid, u) ==
    BagCardinality(reactions) - BagCardinality(RemoveReaction(reactions, cid, u))

\* the two counts of the tapped comment are those before the first tap
CountsRestored ==
    /\ CountReactions(lastTap.cid, "like") = twice.likes
    /\ CountReactions(lastTap.cid, "dislike") = twice.dislikes
    /\ UserReaction(lastTap.cid, lastTap.user) = {}

\* C4 as claimed: a user applies the same reaction type twice in a row to the
\* same existing comment: the second application removes the user's reaction
\* and both counts are back at their values before the first application
C4_Original == twice.hit => CountsRestored

\* C4 amended: a user without a reaction on an existing comment applies the
\* same reaction type twice in a row: the second application removes the
\* user's reaction and both counts are back at their values before the first
C4_Amended == (twice.hit /\ twice.had = "none") => CountsRestored

C4_Witness ==
    /\ twice.hit /\ twice.had = "none"
    /\ twice.likes + twice.dislikes > 0

\* C5: at most one reaction row per (comment, user) pair in every reachable
\* state; a user holding a 'like' who applies 'dislike' ends with exactly one
\* row for the pair, of type 'dislike'
C5_OneRowPerPair ==
    /\ \A r \in BagToSet(reactions) : PairRows(r.comment_id, r.user_id) = 1
    /\ (lastTap.had = "like" /\ lastTap.type = "dislike") =>
            /\ PairRows(lastTap.cid, lastTap.user) = 1
            /\ UserReaction(lastTap.cid, lastTap.user) = {"dislike"}

C5_Witness ==
    /\ lastTap.had = "like" /\ lastTap.type = "dislike"
    /\ \E r \in BagToSet(reactions) :
            r.comment_id = lastTap.cid /\ r.user_id # lastTap.user

\* C6: a user taps the Reply button shown on comment X and then sends a
\* supported message: the inserted comment has parent_comment_id = X and
\* post_id = X's post
C6_ReplyAuthorship ==
    lastReply.target # 0 =>
        \E c \in CommentRow(lastReply.cid) :
            /\ c.parent_comment_id = lastReply.target
            /\ c.post_id = lastReply.post
            /\ c.author_id = lastReply.by

C6_Witness ==
    /\ lastReply.via = "replytoreply"
    /\ \E x \in CommentRow(lastReply.target) : x.parent_comment_id # 0
    /\ CommentRow(lastReply.cid) # {}

\* C7: every delivered comment or reply carries a Reply button whose payload
\* names the node's own comment id and post id, after the first render and
\* after a keyboard rebuild
C7_ReplyButtonNamesNode ==
    \A i \in DOMAIN out :
        (out[i].kind \in {"comment", "reply"} /\ out[i].msg_id # NULL) =>
            \E b \in out[i].kb :
                /\ b.kind \in {"reply", "replytoreply"}
                /\ b.a = out[i].post
                /\ ReplyTarget(b) = out[i].cid

RECURSIVE Depth(_)
\* the number of parent links from comment id up to a top-level comment
Depth(id) ==
    LET row == CommentRow(id)
    IN  IF row = {} THEN 0
        ELSE LET c == CHOOSE x \in row : TRUE
             IN  IF c.parent_comment_id = 0 THEN 0
                 ELSE 1 + Depth(c.parent_comment_id)

\* the comments of the requested post
PostComments == {c \in Range(comments) : c.post_id = request.post_id}

\* C8: for a post with a reply chain deeper than the renderer's maximum
\* rendered depth the renderer ends without an exception and sends no
\* message for a comment below that depth
C8_DepthBound ==
    (Rendered /\ \E c \in PostComments : Depth(c.comment_id) > MaxRenderedDepth)
    => /\ ~raised
       /\ \A i \in DOMAIN out :
            out[i].kind \in {"comment", "reply", "overflow"}
            => Depth(out[i].cid) <= MaxRenderedDepth

C8_Witness ==
    /\ Rendered
    /\ \E c \in PostComments : Depth(c.comment_id) >= 3
    /\ NumSent("reply") >= 1
    /\ ~raised

\* post P holds exactly A (top-level), B (reply to A) and C (reply to B)
Thread3(A, B, C) ==
    /\ PostComments = {A, B, C}
    /\ A.parent_comment_id = 0
    /\ B.parent_comment_id = A.comment_id
    /\ C.parent_comment_id = B.comment_id

\* message i shows comment c
Shows(i, c) == out[i].kind \in {"comment", "reply"} /\ out[i].cid = c.comment_id

\* message j is a chat reply to message i
RepliesTo(j, i) == out[i].msg_id # NULL /\ out[j].reply_to = out[i].msg_id

PaginationDue ==
    request.page > 1 \/ request.page < Ceil5(Cardinality(TopIds))

\* C10: one rejected send inside a top-level comment's subtree (the comment,
\* one of its replies, its reply-overflow control) is caught: the other
\* top-level comments of the page and the pagination control are still sent
C10_SendFailureContained ==
    (/\ Rendered
     /\ Cardinality(request.faults) = 1
     /\ \A f \in request.faults : f[1] \in {"primary", "fallback", "overflow"})
    => /\ ~raised
       /\ Range(IdsSent("comment")) = PageIds
       /\ PaginationDue => NumSent("pagination") = 1

====
